---- MODULE Spec2Model ----
(***************************************************************************)
(* A state-machine model of ai-ffmpeg-cli: the command-line entry points   *)
(* (main.py), the natural-language pipeline and the execution gate         *)
(* (cli_operations.py), the language-model client with its one repair      *)
(* attempt (llm_client.py), configuration loading (config.py) and the key  *)
(* format and masking functions (security.py).                             *)
(*                                                                         *)
(* One run of the model is one process: Init fixes the command line and    *)
(* the environment, the actions are the steps of the code between two      *)
(* interactions with the outside (the model provider, the terminal, the    *)
(* process runner), and `trace` records those interactions in order.       *)
(***************************************************************************)
EXTENDS Integers, Sequences, FiniteSets, TLC

\* ------------------------------------------------------------------ bounds
MaxPromptLen == 1       \* longest prompt text, in characters
MaxCmds == 2            \* most argument vectors one plan compiles to
MaxTurns == 2           \* most lines read by one interactive session

\* ------------------------------------------------------------- basic values
None == "None"
Chars == {"a", " "}                     \* a letter and a whitespace character
Strings == UNION {[1..n -> Chars] : n \in 0..MaxPromptLen}
Vectors == {"v1", "v2"}                 \* argument vectors, opaque
CommandLists == UNION {[1..n -> Vectors] : n \in 1..MaxCmds}

\* str.strip(): leading and trailing whitespace removed.
RECURSIVE lstrip(_)
lstrip(s) ==
    IF s = <<>> THEN <<>>
    ELSE IF Head(s) = " " THEN lstrip(Tail(s)) ELSE s

RECURSIVE rstrip(_)
rstrip(s) ==
    IF s = <<>> THEN <<>>
    ELSE IF s[Len(s)] = " " THEN rstrip(SubSeq(s, 1, Len(s) - 1)) ELSE s

strip(s) == rstrip(lstrip(s))

\* All subsequences of s (characters removed, order kept).
RECURSIVE SubSeqs(_)
SubSeqs(s) ==
    IF s = <<>> THEN {<<>>}
    ELSE LET rest == SubSeqs(Tail(s))
         IN  rest \cup {<<Head(s)>> \o r : r \in rest}

\* io_utils.sanitize_user_input: removes characters from the prompt; which
\* ones is not fixed here, so every subsequence is a possible result.
sanitize_user_input(p) == SubSeqs(p)

\* ------------------------------------------------------------- exceptions
\* type: the class; msg: which message of the code it carries; shown: the
\* text the message interpolates from the API key (<<>>: none).
NoExc == [type |-> None, msg |-> None, shown |-> <<>>]
Exc(t, m) == [type |-> t, msg |-> m, shown |-> <<>>]
ExcShowing(t, m, text) == [type |-> t, msg |-> m, shown |-> text]

\* ---------------------------------------------------------- model replies
\* The text a provider returns, by what json.loads and the schema make of it.
\* wellformed: json.loads succeeds.  action/inputs/error: the fields of the
\* decoded object that matter to validation (None / <<>> when absent).
Actions == {"convert"}
Reply(w, a, i, e) == [wellformed |-> w, action |-> a, inputs |-> i, error |-> e]
ValidReply == Reply(TRUE, "convert", <<"in">>, None)
MalformedReply == Reply(FALSE, None, <<>>, None)
BadActionReply == Reply(TRUE, "bogus", <<"in">>, None)
NoInputsReply == Reply(TRUE, "convert", <<>>, None)
UnsupportedReply == Reply(TRUE, None, <<>>, "unsupported_action")
EmptyObjectReply == Reply(TRUE, None, <<>>, None)     \* the text "{}"
Replies ==
    {ValidReply, MalformedReply, BadActionReply, NoInputsReply,
     UnsupportedReply, EmptyObjectReply}

\* json.loads(raw): the decoded object, or JSONDecodeError.
json_loads_ok(raw) == raw.wellformed

\* Mutant: a schema whose fields are all optional, accepting any object.
model_validate_ok_all_optional(data) == data.wellformed

\* FfmpegIntent.model_validate(data): action is a recognised value and inputs
\* is non-empty; anything else is a ValidationError.
model_validate_ok(data) == data.action \in Actions /\ data.inputs # <<>>

Intent(data) == [action |-> data.action, inputs |-> data.inputs]
NoIntent == [action |-> None, inputs |-> <<>>]

\* ----------------------------------------------------------- the provider
\* What one call of the OpenAI SDK can do: return a message whose content is
\* a text or None, or raise.
ApiReturns == [kind : {"content"}, content : Replies, exc : {None}]
ApiNoContent == [kind |-> "nocontent", content |-> EmptyObjectReply, exc |-> None]
ApiExceptions ==
    {"AuthenticationError", "RateLimitError", "APITimeoutError", "APIError",
     "OSError"}
ApiRaises == [kind : {"raise"}, content : {EmptyObjectReply}, exc : ApiExceptions]
ApiOutcomes == ApiReturns \cup {ApiNoContent} \cup ApiRaises

\* The result of provider.complete: a returned text or a raised exception.
Returned(raw) == [raised |-> NoExc, raw |-> raw]
Raised(e) == [raised |-> e, raw |-> EmptyObjectReply]

\* OpenAIProvider.complete: content `or "{}"`; every exception of the SDK call
\* is translated to ParseError, by class.
OpenAIProvider_complete(api) ==
    IF api.kind = "content" THEN Returned(api.content)
    ELSE IF api.kind = "nocontent" THEN Returned(EmptyObjectReply)
    ELSE IF api.exc = "AuthenticationError" THEN Raised(Exc("ParseError", "auth"))
    ELSE IF api.exc = "RateLimitError" THEN Raised(Exc("ParseError", "rate_limit"))
    ELSE IF api.exc = "APITimeoutError" THEN Raised(Exc("ParseError", "timeout"))
    ELSE IF api.exc = "APIError" THEN Raised(Exc("ParseError", "api_error"))
    ELSE Raised(Exc("ParseError", "no_response"))

\* LLMProvider.complete, the interface: an injected provider returns any text
\* or raises; ParseError and OSError are the exceptions LLMClient.parse names.
LLMProvider_complete ==
    {Returned(r) : r \in Replies}
        \cup {Raised(Exc("ParseError", "provider")), Raised(Exc("OSError", "os"))}

ProviderKinds == {"OpenAIProvider", "LLMProvider"}
complete(kind) ==
    IF kind = "OpenAIProvider"
    THEN {OpenAIProvider_complete(api) : api \in ApiOutcomes}
    ELSE LLMProvider_complete

\* ------------------------------------------------------------ security.py
\* API keys are character sequences; NoKey is an unset or empty variable.
Alnum == {"a", "x", "y", "z", "Z", "7"}
KeyPrefix == <<"s", "k", "-">>
MinBodyLen == 32
MaskLimit == 8
Rep(c, n) == [i \in 1..n |-> c]
NoKey == <<>>
ValidKey == KeyPrefix \o Rep("a", MinBodyLen - 3) \o <<"x", "y", "z">>
MalformedKey == <<"m", "y", "-", "s", "e", "c", "r", "e", "t">>
ShortKey == <<"p", "w", "d">>

Stars == <<"*", "*", "*">>

\* mask_api_key: a placeholder for no key or a key of at most 8 characters,
\* otherwise the first three characters, "***", the last three.
mask_api_key(k) ==
    IF k = <<>> THEN Stars \o <<"NO_KEY">> \o Stars
    ELSE IF Len(k) <= MaskLimit THEN Stars \o <<"SHORT_KEY">> \o Stars
    ELSE SubSeq(k, 1, 3) \o Stars \o SubSeq(k, Len(k) - 2, Len(k))

\* re.match(r"^[a-zA-Z0-9]+$", body): one or more alphanumerics up to the
\* end of the text, where $ also matches before one trailing newline.
alnum_match(body) ==
    LET core == IF body # <<>> /\ body[Len(body)] = "\n"
                THEN SubSeq(body, 1, Len(body) - 1) ELSE body
    IN  core # <<>> /\ \A i \in DOMAIN core : core[i] \in Alnum

\* validate_api_key_format: "sk-" followed by at least 32 matching characters.
validate_api_key_format(k) ==
    /\ k # <<>>
    /\ Len(k) >= Len(KeyPrefix)
    /\ SubSeq(k, 1, Len(KeyPrefix)) = KeyPrefix
    /\ LET key_body == SubSeq(k, Len(KeyPrefix) + 1, Len(k))
       IN  Len(key_body) >= MinBodyLen /\ alnum_match(key_body)

\* ---------------------------------------------------------- configuration
\* The environment the process starts in.  OPENAI_API_KEY is the key text;
\* AICLIP_TIMEOUT its integer value (unset reads as "60"); ffmpeg: whether
\* shutil.which finds the binary.
EnvKeys == {NoKey, ShortKey, MalformedKey, ValidKey}
EnvTimeouts == {60, 0}
EnvModels == {"gpt-4o"}

\* Paths and the file system.  A path is absolute or relative and has its
\* components in order; the directories and files that exist are named by
\* the components of their absolute normalised paths.
MaxDirs == 2
Path(a, parts) == [abs |-> a, parts |-> parts]
Cwd == Path(TRUE, <<"work">>)
DirParts == {<<>>, <<"work">>, <<"work", "data">>, <<"srv">>}
FileParts == {<<"work", "f.txt">>}
\* One piece of AICLIP_ALLOWED_DIRS between commas that strip() leaves empty.
Blank == Path(FALSE, <<>>)
DirEntries == {Blank, Path(FALSE, <<"data">>), Path(TRUE, <<"missing">>)}
\* Lists with a file, with an absolute directory, with ".." components.
DirLists ==
    {<<Path(FALSE, <<"f.txt">>), Path(TRUE, <<"missing">>)>>,
     <<Path(FALSE, <<"data", "..">>), Path(TRUE, <<"srv">>)>>,
     <<Path(FALSE, <<"..", "..">>), Path(FALSE, <<"f.txt">>)>>}
RECURSIVE SeqsUpTo(_, _)
SeqsUpTo(S, n) ==
    IF n = 0 THEN {<<>>}
    ELSE SeqsUpTo(S, n - 1) \cup {Append(q, x) : q \in SeqsUpTo(S, n - 1), x \in S}
\* AICLIP_ALLOWED_DIRS split at its commas; unset is the empty sequence.
DirInputs == SeqsUpTo(DirEntries, MaxDirs) \cup DirLists
EnvDirs == {<<>>}

Envs ==
    [OPENAI_API_KEY : EnvKeys, AICLIP_TIMEOUT : EnvTimeouts,
     AICLIP_DRY_RUN : BOOLEAN, AICLIP_MODEL : EnvModels, ffmpeg : BOOLEAN,
     AICLIP_ALLOWED_DIRS : EnvDirs]

\* AppConfig.timeout_seconds: Field(default=60, ge=1, le=300)
TimeoutMin == 1
TimeoutMax == 300
DefaultTimeout == 60

NoConfig ==
    [loaded |-> FALSE, openai_api_key |-> NoKey, model |-> "gpt-4o",
     dry_run |-> FALSE, confirm_default |-> TRUE, timeout_seconds |-> DefaultTimeout,
     allowed_directories |-> <<>>]

\* os.path.normpath on the components: "." is skipped, ".." removes the
\* component before it and is dropped at the root.
RECURSIVE normpath(_, _)
normpath(parts, acc) ==
    IF parts = <<>> THEN acc
    ELSE IF Head(parts) = "." THEN normpath(Tail(parts), acc)
    ELSE IF Head(parts) = ".."
    THEN normpath(Tail(parts), IF acc = <<>> THEN acc ELSE SubSeq(acc, 1, Len(acc) - 1))
    ELSE normpath(Tail(parts), Append(acc, Head(parts)))

\* os.path.abspath: a relative path is joined to the working directory, then
\* normalised.
abspath(p) ==
    Path(TRUE, normpath(IF p.abs THEN p.parts ELSE Cwd.parts \o p.parts, <<>>))
isdir(p) == p.parts \in DirParts
exists(p) == p.parts \in DirParts \cup FileParts

\* Mutant: without the fallback to the working directory.
validate_directories_no_fallback(v) ==
    SelectSeq([i \in DOMAIN v |-> abspath(v[i])], LAMBDA d : exists(d) /\ isdir(d))

\* AppConfig.validate_directories on a list.
validate_directories(v) ==
    LET validated_dirs ==
            SelectSeq([i \in DOMAIN v |-> abspath(v[i])], LAMBDA d : exists(d) /\ isdir(d))
    IN  IF validated_dirs = <<>> THEN <<Cwd>> ELSE validated_dirs

\* load_config's reading of AICLIP_ALLOWED_DIRS: the pieces that are not
\* blank, or the working directory when there is none.
allowed_dirs(e) ==
    LET pieces == SelectSeq(e.AICLIP_ALLOWED_DIRS, LAMBDA d : d # Blank)
    IN  IF pieces = <<>> THEN <<Cwd>> ELSE pieces

\* AppConfig(...) as load_config constructs it: model and dry_run from their
\* default factories (the environment), confirm_default from its default.
AppConfig(e) ==
    [loaded |-> TRUE, openai_api_key |-> e.OPENAI_API_KEY, model |-> e.AICLIP_MODEL,
     dry_run |-> e.AICLIP_DRY_RUN, confirm_default |-> TRUE,
     timeout_seconds |-> e.AICLIP_TIMEOUT,
     allowed_directories |-> validate_directories(allowed_dirs(e))]

\* load_config(): the configuration, or the ConfigError it raises.
load_config(e) ==
    IF ~(TimeoutMin <= e.AICLIP_TIMEOUT /\ e.AICLIP_TIMEOUT <= TimeoutMax)
    THEN [cfg |-> NoConfig, raised |-> Exc("ConfigError", "validation_failed")]
    ELSE IF ~e.ffmpeg
    THEN [cfg |-> NoConfig, raised |-> Exc("ConfigError", "ffmpeg_not_found")]
    ELSE [cfg |-> AppConfig(e), raised |-> NoExc]

\* Mutant: the presence test only, without the format test.
validate_api_key_for_use_presence_only(c) ==
    IF c.openai_api_key = <<>> THEN Exc("ConfigError", "key_required") ELSE NoExc

\* AppConfig.validate_api_key_for_use: the ConfigError it raises, or NoExc.
validate_api_key_for_use(c) ==
    IF c.openai_api_key = <<>> THEN Exc("ConfigError", "key_required")
    ELSE IF ~validate_api_key_format(c.openai_api_key)
    THEN ExcShowing("ConfigError", "key_format", mask_api_key(c.openai_api_key))
    ELSE NoExc

\* ------------------------------------------------------------ command line
\* prompt: the optional positional argument; command: the invoked
\* subcommand (None: the top-level callback runs the pipeline itself).
NoPrompt == [given |-> FALSE, text |-> <<>>]
Prompt(t) == [given |-> TRUE, text |-> t]
OptPrompts == {NoPrompt} \cup {Prompt(t) : t \in Strings}
OptDryRuns == {None, "--dry-run", "--no-dry-run"}
OptModels == {None}
NoTimeout == 0 - 1                     \* timeout=None / --timeout not passed
OptTimeouts == {NoTimeout}
Commands == {None, "nl", "explain-cmd"}
Argvs ==
    [command : Commands, prompt : OptPrompts, yes : BOOLEAN, model : OptModels,
     dry_run : OptDryRuns, timeout : OptTimeouts]

\* A direct use of the client, LLMClient(provider).parse(nl_prompt, context,
\* timeout), with an injected provider.
LibTimeouts == {NoTimeout, 30}
Contexts == {"ctx1"}

NoCode == 0 - 1                        \* the process has not exited
NoPayload == [prompt |-> <<>>, context |-> None]

VARIABLES
    argv,               \* the command line (fixed)
    env,                \* the environment (fixed)
    pc,                 \* the position of the process
    caller,             \* who called the pipeline / the client
    cfg,                \* the AppConfig object
    ctx_obj,            \* typer's ctx.obj: whether set, and its assume_yes
    assume_yes,         \* the assume_yes argument of the pipeline
    prompt,             \* the prompt text of the current turn
    provider,           \* the provider of the LLMClient
    timeout,            \* the timeout argument of parse
    context,            \* the context scan() returned
    user_payload,       \* parse: the serialized {prompt, context}
    intent,             \* the Intent parse returned
    commands,           \* the argument vectors build_commands returned
    confirmed,          \* _execute_commands: the confirmation value
    turns,              \* lines read by the interactive session
    processed,          \* lines the session has passed to the pipeline
    exit_code,          \* the exit code of the process, NoCode while running
    exc,                \* the exception that escaped, NoExc if none
    trace               \* the interactions of the current turn, in order

vars ==
    <<argv, env, pc, caller, cfg, ctx_obj, assume_yes, prompt, provider, timeout,
      context, user_payload, intent, commands, confirmed, turns, processed,
      exit_code, exc, trace>>

NoCtxObj == [set |-> FALSE, assume_yes |-> FALSE]

\* ------------------------------------------------------------------- Init
\* Either the command-line program is started (pc = "cli_main"), or a caller
\* has built LLMClient(provider) itself and calls parse (pc = "parse").
InitCli ==
    /\ argv \in Argvs
    /\ env \in Envs
    /\ pc = "cli_main"
    /\ caller = None
    /\ provider = None
    /\ prompt = <<>>
    /\ timeout = NoTimeout
    /\ context = None

InitLib ==
    /\ argv \in {a \in Argvs : a.command = None /\ ~a.prompt.given /\ ~a.yes
                               /\ a.dry_run = None}
    /\ env \in {e \in Envs : e.OPENAI_API_KEY = NoKey /\ e.AICLIP_TIMEOUT = DefaultTimeout
                            /\ ~e.AICLIP_DRY_RUN /\ e.ffmpeg}
    /\ pc = "parse"
    /\ caller = "lib"
    /\ provider \in ProviderKinds
    /\ prompt \in Strings
    /\ timeout \in LibTimeouts
    /\ context \in Contexts

\* The command line with every kind of --timeout value: not passed, below
\* the range of AppConfig.timeout_seconds, above the range.  The rest of the
\* command line and of the environment is held to one case.
WideTimeouts == {NoTimeout, TimeoutMin - 1, TimeoutMax + 1}
WideEnvTimeouts == {TimeoutMin - 1, 30, DefaultTimeout, TimeoutMax + 1}
ArgvsTimeout ==
    [command : Commands, prompt : {NoPrompt, Prompt(<<"a">>)}, yes : {TRUE},
     model : OptModels, dry_run : {None}, timeout : WideTimeouts]
InitTimeout ==
    /\ argv \in ArgvsTimeout
    /\ env \in [OPENAI_API_KEY : {ValidKey}, AICLIP_TIMEOUT : WideEnvTimeouts,
                 AICLIP_DRY_RUN : {TRUE}, AICLIP_MODEL : EnvModels, ffmpeg : {TRUE},
                 AICLIP_ALLOWED_DIRS : EnvDirs]
    /\ pc = "cli_main"
    /\ caller = None
    /\ provider = None
    /\ prompt = <<>>
    /\ timeout = NoTimeout
    /\ context = None

\* The environment with every kind of OPENAI_API_KEY text: besides the keys
\* of EnvKeys, "sk-" with 32 characters the last of which is a newline, a
\* hyphen, an underscore or a blank, with 31 alphanumerics only, and 32
\* alphanumerics after another prefix.
KeyBody31 == Rep("a", MinBodyLen - 4) \o <<"7", "y", "Z">>
KeyInputs ==
    EnvKeys
        \cup {KeyPrefix \o KeyBody31 \o <<c>> : c \in {"\n", "-", "_", " ", "x"}}
        \cup {KeyPrefix \o KeyBody31, <<"p", "k", "-">> \o KeyBody31 \o <<"x">>,
              KeyPrefix \o <<"\n">> \o KeyBody31}
InitKey ==
    /\ argv \in [command : Commands, prompt : {NoPrompt, Prompt(<<"a">>)}, yes : {TRUE},
                  model : OptModels, dry_run : {None}, timeout : OptTimeouts]
    /\ env \in [OPENAI_API_KEY : KeyInputs, AICLIP_TIMEOUT : {DefaultTimeout},
                 AICLIP_DRY_RUN : {TRUE}, AICLIP_MODEL : EnvModels, ffmpeg : {TRUE},
                 AICLIP_ALLOWED_DIRS : EnvDirs]
    /\ pc = "cli_main"
    /\ caller = None
    /\ provider = None
    /\ prompt = <<>>
    /\ timeout = NoTimeout
    /\ context = None

\* The environment with every kind of AICLIP_ALLOWED_DIRS value: every list
\* for a one-shot run, the lists of at most one piece for a session.
InitDir ==
    /\ argv \in [command : Commands, prompt : {NoPrompt, Prompt(<<"a">>)}, yes : {TRUE},
                  model : OptModels, dry_run : {None}, timeout : OptTimeouts]
    /\ env \in [OPENAI_API_KEY : {ValidKey}, AICLIP_TIMEOUT : {DefaultTimeout},
                 AICLIP_DRY_RUN : {TRUE}, AICLIP_MODEL : EnvModels, ffmpeg : {TRUE},
                 AICLIP_ALLOWED_DIRS : DirInputs]
    /\ (argv.command = None /\ ~argv.prompt.given) => Len(env.AICLIP_ALLOWED_DIRS) <= 1
    /\ pc = "cli_main"
    /\ caller = None
    /\ provider = None
    /\ prompt = <<>>
    /\ timeout = NoTimeout
    /\ context = None

InitRest ==
    /\ cfg = NoConfig
    /\ ctx_obj = NoCtxObj
    /\ assume_yes = FALSE
    /\ user_payload = NoPayload
    /\ intent = NoIntent
    /\ commands = <<>>
    /\ confirmed = FALSE
    /\ turns = 0
    /\ processed = 0
    /\ exit_code = NoCode
    /\ exc = NoExc
    /\ trace = <<>>

Init == (InitCli \/ InitLib) /\ InitRest

\* ------------------------------------------------- how a call comes back
PrintError(tr, e) == Append(tr, [ev |-> "print_error", exc |-> e])

\* raise typer.Exit(code) reaching the top: the process exits with code.
Exit(code, tr) ==
    /\ pc' = "done"
    /\ exit_code' = code
    /\ exc' = NoExc
    /\ trace' = tr

\* An exception nobody catches: a traceback, and exit status 1.
Uncaught(e, tr) ==
    /\ pc' = "done"
    /\ exit_code' = 1
    /\ exc' = e
    /\ trace' = tr

\* _main_impl, the except clauses around the one-shot call: ParseError,
\* BuildError, ExecError (inner) and ConfigError (outer) exit with 1.
HandledByMain == {"ParseError", "BuildError", "ExecError", "ConfigError"}
main_impl_except(e, tr) ==
    IF e.type \in HandledByMain THEN Exit(1, PrintError(tr, e)) ELSE Uncaught(e, tr)

\* nl, `except Exception` around both modes: whatever is raised inside the
\* try, typer.Exit(code) included (click's Exit is a RuntimeError), is
\* printed and becomes typer.Exit(1).
nl_except(e, tr) == Exit(1, PrintError(tr, e))

\* process_interactive_session, the except clauses of the loop: ParseError,
\* BuildError and ExecError are printed and the loop goes on; anything else
\* leaves the session and reaches nl's `except Exception`.
HandledBySession == {"ParseError", "BuildError", "ExecError"}
session_except(e, tr) ==
    IF e.type \in HandledBySession
    THEN /\ pc' = "read"
         /\ trace' = PrintError(tr, e)
         /\ UNCHANGED <<exit_code, exc>>
    ELSE nl_except(e, tr)

\* An exception raised in the pipeline or the client, delivered to the caller.
Raise(e, tr) ==
    CASE caller = "lib" ->
            pc' = "done" /\ exc' = e /\ trace' = tr /\ UNCHANGED exit_code
      [] caller = "_main_impl" -> main_impl_except(e, tr)
      [] caller = "nl" -> nl_except(e, tr)
      [] caller = "session" -> session_except(e, tr)

\* process_natural_language_prompt returning `code` to its caller.
TyperExit == Exc("Exit", "code")
\* Mutant: a nonzero code ends the session, which returns that code.
Return_ends_session(code, tr) ==
    CASE caller = "_main_impl" -> Exit(code, tr)
      [] caller = "nl" -> nl_except(TyperExit, tr)
      [] caller = "session" ->
            IF code # 0
            THEN nl_except(TyperExit,
                           Append(tr, [ev |-> "session_returned", code |-> code]))
            ELSE /\ pc' = "read"
                 /\ trace' = tr
                 /\ UNCHANGED <<exit_code, exc>>

Return(code, tr) ==
    CASE caller = "_main_impl" -> Exit(code, tr)
      [] caller = "nl" -> nl_except(TyperExit, tr)
      [] caller = "session" ->
            /\ pc' = "read"
            /\ trace' = IF code # 0 THEN Append(tr, [ev |-> "print_code", code |-> code])
                        ELSE tr
            /\ UNCHANGED <<exit_code, exc>>

\* ------------------------------------------------------------ main.py
\* cli_main, the typer callback: without a subcommand it runs _main_impl,
\* with one it only sets up logging and typer runs the subcommand, whose
\* ctx.obj nobody has set.
cli_main ==
    /\ pc = "cli_main"
    /\ pc' = IF argv.command = None THEN "_main_impl" ELSE argv.command
    /\ UNCHANGED <<argv, env, caller, cfg, ctx_obj, assume_yes, prompt, provider,
                   timeout, context, user_payload, intent, commands, confirmed,
                   turns, processed, exit_code, exc, trace>>

\* cli_main's parameter: typer.Option(60, "--timeout").
option_timeout(a) == IF a.timeout = NoTimeout THEN DefaultTimeout ELSE a.timeout

\* _main_impl: the overrides applied to the loaded configuration.
main_overrides(c, a) ==
    [c EXCEPT !.model = IF a.model # None THEN a.model ELSE @,
              !.dry_run = IF a.dry_run # None THEN a.dry_run = "--dry-run" ELSE @,
              !.timeout_seconds = option_timeout(a)]

\* _main_impl: load the configuration, apply the options, set ctx.obj, and
\* run the one-shot prompt if one was given.
main_impl ==
    /\ pc = "_main_impl"
    /\ LET r == load_config(env)
       IN  IF r.raised # NoExc
           THEN /\ main_impl_except(r.raised, trace)
                /\ UNCHANGED <<cfg, ctx_obj, caller, prompt, assume_yes>>
           ELSE /\ cfg' = main_overrides(r.cfg, argv)
                /\ ctx_obj' = [set |-> TRUE, assume_yes |-> argv.yes]
                /\ IF argv.prompt.given
                   THEN /\ pc' = "scan"
                        /\ caller' = "_main_impl"
                        /\ prompt' = argv.prompt.text
                        /\ assume_yes' = argv.yes
                        /\ UNCHANGED <<exit_code, exc, trace>>
                   ELSE /\ Exit(0, trace)
                        /\ UNCHANGED <<caller, prompt, assume_yes>>
    /\ UNCHANGED <<argv, env, provider, timeout, context, user_payload, intent,
                   commands, confirmed, turns, processed>>

\* nl: ctx.obj is initialised here when it is None (assume_yes False); then
\* the one-shot prompt or the interactive session runs with ctx.obj's values.
nl ==
    /\ pc = "nl"
    /\ LET r == load_config(env)
           fresh == ~ctx_obj.set
           obj == IF fresh THEN [set |-> TRUE, assume_yes |-> FALSE] ELSE ctx_obj
       IN  IF fresh /\ r.raised # NoExc
           THEN /\ Exit(1, PrintError(trace, r.raised))
                /\ UNCHANGED <<cfg, ctx_obj, caller, prompt, assume_yes>>
           ELSE /\ cfg' = IF fresh THEN r.cfg ELSE cfg
                /\ ctx_obj' = obj
                /\ assume_yes' = obj.assume_yes
                /\ IF argv.prompt.given
                   THEN /\ pc' = "scan"
                        /\ caller' = "nl"
                        /\ prompt' = argv.prompt.text
                   ELSE /\ pc' = "read"
                        /\ caller' = "session"
                        /\ UNCHANGED prompt
                /\ UNCHANGED <<exit_code, exc, trace>>
    /\ UNCHANGED <<argv, env, provider, timeout, context, user_payload, intent,
                   commands, confirmed, turns, processed>>

\* explain-cmd.  ctx.args: the remaining arguments, each a text of words
\* and blanks (" ").
ExplainArgs ==
    {<<>>, <<<<>>>>, <<<<" ">>>>, <<<<"ls", " ", "-l">>>>,
     <<<<"ffmpeg", " ", "-i", " ", "in">>>>, <<<<"ffmpeg">>, <<"-i">>, <<"in">>>>}

\* " ".join(ctx.args)
RECURSIVE join(_)
join(args) ==
    IF args = <<>> THEN <<>>
    ELSE IF Len(args) = 1 THEN args[1]
    ELSE args[1] \o <<" ">> \o join(Tail(args))

\* str.split(): the words, blanks dropped.
split(text) == SelectSeq(text, LAMBDA w : w # " ")

\* Mutant: a command line that is not ffmpeg's is a usage error too.
explain_code_usage_only(args) ==
    IF args = <<>> \/ join(args) = <<>> THEN 2
    ELSE IF split(join(args)) = <<>> \/ split(join(args))[1] # "ffmpeg" THEN 2
    ELSE 0

\* explain_cmd: the exit code; 0 is the function returning after its summary.
explain_code(args) ==
    IF args = <<>> \/ join(args) = <<>> THEN 2
    ELSE IF split(join(args)) = <<>> \/ split(join(args))[1] # "ffmpeg" THEN 1
    ELSE 0

\* explain_cmd: prints the usage, the error or the summary of the command
\* line it was given, and exits.
explain_cmd ==
    /\ pc = "explain-cmd"
    /\ \E args \in ExplainArgs :
          Exit(explain_code(args),
               Append(trace, [ev |-> "explain", args |-> args,
                              summary |-> explain_code(args) = 0]))
    /\ UNCHANGED <<argv, env, caller, cfg, ctx_obj, assume_yes, prompt, provider,
                   timeout, context, user_payload, intent, commands, confirmed,
                   turns, processed>>

\* ---------------------------------------------- the interactive session
\* What input("aiclip> ") gives: a line, or EOFError / KeyboardInterrupt.
Quit == <<"q", "u", "i", "t">>
ExitCommands == {<<"e", "x", "i", "t">>, Quit, <<"q">>}
\* Lines that are not exit words: empty, blank, a prompt, a padded prompt.
PromptLines == {<<>>, <<" ">>, <<"a">>, <<" ", "a", " ">>}
SessionLines ==
    PromptLines \cup ExitCommands \cup {<<"Q">>, <<"q", " ">>, <<"Q", "u", "I", "t">>}

\* str.lower(), on the letters that occur.
lower_identity(s) == s
Upper == {"Q", "U", "I", "T"}
lower_char(c) ==
    IF c = "Q" THEN "q" ELSE IF c = "U" THEN "u" ELSE IF c = "I" THEN "i" ELSE "t"
lower(s) == [i \in DOMAIN s |-> IF s[i] \in Upper THEN lower_char(s[i]) ELSE s[i]]

\* The session is over: process_interactive_session returns 0 to nl, whose
\* raise typer.Exit(code) sits inside its own `except Exception`.
SessionCode == 0
session_return(tr) ==
    nl_except(TyperExit, Append(tr, [ev |-> "session_returned", code |-> SessionCode]))

\* The exceptions of input() the loop has a handler for.
InputExceptions == {"EOFError", "KeyboardInterrupt"}
\* Mutant: the loop has no handler for EOFError.
session_interrupts_no_eof == {"KeyboardInterrupt"}
session_interrupts == {"KeyboardInterrupt", "EOFError"}

\* One pass of the loop up to the call of the pipeline.
read_line ==
    /\ pc = "read"
    /\ turns < MaxTurns
    /\ \E line \in SessionLines :
          LET user_input == strip(line)
          IN  /\ turns' = turns + 1
              /\ IF user_input = <<>>
                 THEN /\ trace' = <<[ev |-> "read", user_input |-> user_input]>>
                      /\ UNCHANGED <<pc, prompt, processed, exit_code, exc>>
                 ELSE IF lower(user_input) \in ExitCommands
                 THEN /\ session_return(<<[ev |-> "read", user_input |-> user_input]>>)
                      /\ UNCHANGED <<prompt, processed>>
                 ELSE /\ pc' = "scan"
                      /\ prompt' = user_input
                      /\ processed' = processed + 1
                      /\ trace' = <<[ev |-> "read", user_input |-> user_input]>>
                      /\ UNCHANGED <<exit_code, exc>>
    \* the locals of the previous call of the pipeline are gone
    /\ provider' = None
    /\ timeout' = NoTimeout
    /\ context' = None
    /\ user_payload' = NoPayload
    /\ intent' = NoIntent
    /\ commands' = <<>>
    /\ confirmed' = FALSE
    /\ UNCHANGED <<argv, env, caller, cfg, ctx_obj, assume_yes>>

\* input() raises EOFError or KeyboardInterrupt: "Exiting...", break.  One
\* the loop had no handler for would leave the session: an Exception into
\* nl's handler, a BaseException to the top.
read_interrupt ==
    /\ pc = "read"
    /\ \E e \in InputExceptions :
          LET tr == <<[ev |-> "input_raised", exc |-> Exc(e, None)]>>
          IN  IF e \in session_interrupts
              THEN session_return(Append(tr, [ev |-> "exiting", exc |-> Exc(e, None)]))
              ELSE IF e = "KeyboardInterrupt"
              THEN Uncaught(Exc(e, None), tr)
              ELSE nl_except(Exc(e, None), tr)
    /\ UNCHANGED <<argv, env, caller, cfg, ctx_obj, assume_yes, prompt, provider,
                   timeout, context, user_payload, intent, commands, confirmed, turns, processed>>

\* ------------------------------------------------- cli_operations.py
\* process_natural_language_prompt up to the call of parse: scan() for the
\* context, then _make_llm_client, which validates the key and builds the
\* OpenAIProvider.
scan_and_make_client ==
    /\ pc = "scan"
    /\ \E c \in Contexts :
          LET tr == Append(trace, [ev |-> "scan"])
              bad == validate_api_key_for_use(cfg)
          IN  /\ context' = c
              /\ IF bad # NoExc
                 THEN /\ Raise(bad, Append(tr, [ev |-> "client_raised", exc |-> bad]))
                      /\ UNCHANGED <<provider, timeout>>
                 ELSE /\ provider' = "OpenAIProvider"
                      /\ timeout' = cfg.timeout_seconds
                      /\ pc' = "parse"
                      /\ trace' = Append(tr, [ev |-> "client", model |-> cfg.model])
                      /\ UNCHANGED <<exit_code, exc>>
    /\ UNCHANGED <<argv, env, caller, cfg, ctx_obj, assume_yes, prompt, user_payload,
                   intent, commands, confirmed, turns, processed>>

\* --------------------------------------------------------- llm_client.py
\* Mutant: the emptiness test without strip().
prompt_rejected_no_strip(sanitized_prompt) == sanitized_prompt = <<>>

\* LLMClient.parse, `if not sanitized_prompt.strip()`: the prompt is rejected.
prompt_rejected(sanitized_prompt) == strip(sanitized_prompt) = <<>>

\* LLMClient.parse: effective_timeout = 60 if timeout is None else timeout
effective_timeout(t) == IF t = NoTimeout THEN DefaultTimeout ELSE t

\* The user message of the first call, and of the repair call
\* (repair_prompt + "\n" + user_payload).
first_message(payload) == [repair_prompt |-> FALSE, payload |-> payload]
\* Mutant: the repair message carries the prompt again, without the context.
repair_message_no_context(payload) ==
    [repair_prompt |-> TRUE, payload |-> [payload EXCEPT !.context = None]]
repair_message(payload) == [repair_prompt |-> TRUE, payload |-> payload]

CompleteCall(user, t, r) ==
    [ev |-> "complete", system |-> "SYSTEM_PROMPT", user |-> user, timeout |-> t,
     result |-> r]

\* parse raising e: recorded, and delivered to the caller.
parse_raise(e, tr) == Raise(e, Append(tr, [ev |-> "parse_raised", exc |-> e]))

\* LLMClient.parse up to the first call: sanitize, reject an empty prompt,
\* serialize the payload.
parse_begin ==
    /\ pc = "parse"
    /\ \E sanitized_prompt \in sanitize_user_input(prompt) :
          LET tr == Append(trace, [ev |-> "parse", sanitized_prompt |-> sanitized_prompt])
          IN  IF prompt_rejected(sanitized_prompt)
              THEN /\ parse_raise(Exc("ParseError", "empty_prompt"), tr)
                   /\ UNCHANGED user_payload
              ELSE /\ user_payload' = [prompt |-> sanitized_prompt, context |-> context]
                   /\ pc' = "attempt1"
                   /\ trace' = tr
                   /\ UNCHANGED <<exit_code, exc>>
    /\ UNCHANGED <<argv, env, caller, cfg, ctx_obj, assume_yes, prompt, provider,
                   timeout, context, intent, commands, confirmed, turns, processed>>

\* What the try block of an attempt ends with, by the result of complete:
\* the exception raised inside it, or NoExc when the intent validates.
attempt_error(r) ==
    IF r.raised # NoExc THEN r.raised
    ELSE IF ~json_loads_ok(r.raw) THEN Exc("JSONDecodeError", "json")
    ELSE IF ~model_validate_ok(r.raw) THEN Exc("ValidationError", "schema")
    ELSE NoExc

\* Mutant: the first attempt also catches the provider's errors and repairs.
first_except_any == {"JSONDecodeError", "ValidationError", "ParseError", "OSError"}
\* Mutant: the first attempt catches only the validation error.
first_except_schema_only == {"ValidationError"}

\* The first attempt's `except (json.JSONDecodeError, ValidationError)`.
first_except == {"JSONDecodeError", "ValidationError"}

\* Mutant: the repair attempt without its `except ValidationError` clause.
repair_except_no_validation(e) ==
    IF e.type = "JSONDecodeError" THEN Exc("ParseError", "invalid_json")
    ELSE IF e.type = "OSError" THEN Exc("ParseError", "network_error")
    ELSE e

\* Mutant: the repair attempt without its `except OSError` clause.
repair_except_no_oserror(e) ==
    IF e.type = "JSONDecodeError" THEN Exc("ParseError", "invalid_json")
    ELSE IF e.type = "ValidationError" THEN Exc("ParseError", "schema_mismatch")
    ELSE e

\* Mutant: a schema failure of the repair attempt gets the bad-JSON message.
repair_except_one_message(e) ==
    IF e.type \in {"JSONDecodeError", "ValidationError"}
    THEN Exc("ParseError", "invalid_json")
    ELSE IF e.type = "ParseError" THEN e
    ELSE IF e.type = "OSError" THEN Exc("ParseError", "network_error")
    ELSE e

\* The except clauses of the repair attempt: the ParseError raised for what
\* the repair attempt ended with; an exception none of them names propagates.
repair_except(e) ==
    IF e.type = "JSONDecodeError" THEN Exc("ParseError", "invalid_json")
    ELSE IF e.type = "ValidationError" THEN Exc("ParseError", "schema_mismatch")
    ELSE IF e.type = "ParseError" THEN e
    ELSE IF e.type = "OSError" THEN Exc("ParseError", "network_error")
    ELSE e

\* parse returning its intent: to the direct caller, or on to routing.
parse_return(data, tr) ==
    /\ intent' = Intent(data)
    /\ trace' = Append(tr, [ev |-> "parse_returned", intent |-> Intent(data)])
    /\ pc' = IF caller = "lib" THEN "done" ELSE "build"
    /\ UNCHANGED <<exit_code, exc>>

\* The first attempt: one call of provider.complete, json.loads, validation.
first_attempt ==
    /\ pc = "attempt1"
    /\ \E r \in complete(provider) :
          LET tr == Append(trace, CompleteCall(first_message(user_payload),
                                               effective_timeout(timeout), r))
              err == attempt_error(r)
          IN  IF err = NoExc THEN parse_return(r.raw, tr)
              ELSE IF err.type \in first_except
              THEN /\ pc' = "attempt2"
                   /\ trace' = tr
                   /\ UNCHANGED <<intent, exit_code, exc>>
              ELSE /\ parse_raise(err, tr)
                   /\ UNCHANGED intent
    /\ UNCHANGED <<argv, env, caller, cfg, ctx_obj, assume_yes, prompt, provider,
                   timeout, context, user_payload, commands, confirmed, turns, processed>>

\* The repair attempt: the second call, with the corrective instruction.
repair_attempt ==
    /\ pc = "attempt2"
    /\ \E r \in complete(provider) :
          LET tr == Append(trace, CompleteCall(repair_message(user_payload),
                                               effective_timeout(timeout), r))
              err == attempt_error(r)
          IN  IF err = NoExc THEN parse_return(r.raw, tr)
              ELSE /\ parse_raise(repair_except(err), tr)
                   /\ UNCHANGED intent
    /\ UNCHANGED <<argv, env, caller, cfg, ctx_obj, assume_yes, prompt, provider,
                   timeout, context, user_payload, commands, confirmed, turns, processed>>

\* ----------------------------------------- routing, building, the gate
\* Mutant: a BuildError is printed and the gate is entered all the same.
route_and_build_swallow ==
    /\ pc = "build"
    /\ LET tr == Append(trace, [ev |-> "route"]) \o <<[ev |-> "build"]>>
       IN  \/ /\ commands' = <<>>
              /\ pc' = "gate"
              /\ trace' = PrintError(Append(tr, [ev |-> "build_raised",
                                                 exc |-> Exc("BuildError", "build")]),
                                     Exc("BuildError", "build"))
              /\ UNCHANGED <<exit_code, exc>>
           \/ \E cmds \in CommandLists :
                 /\ commands' = cmds
                 /\ pc' = "gate"
                 /\ trace' = tr
                 /\ UNCHANGED <<exit_code, exc>>
    /\ UNCHANGED <<argv, env, caller, cfg, ctx_obj, assume_yes, prompt, provider,
                   timeout, context, user_payload, intent, confirmed, turns, processed>>

\* route_intent is total; build_commands returns the argument vectors of the
\* plan or raises BuildError.
route_and_build ==
    /\ pc = "build"
    /\ LET tr == Append(trace, [ev |-> "route"]) \o <<[ev |-> "build"]>>
       IN  \/ /\ Raise(Exc("BuildError", "build"),
                       Append(tr, [ev |-> "build_raised",
                                   exc |-> Exc("BuildError", "build")]))
              /\ UNCHANGED commands
           \/ \E cmds \in CommandLists :
                 /\ commands' = cmds
                 /\ pc' = "gate"
                 /\ trace' = tr
                 /\ UNCHANGED <<exit_code, exc>>
    /\ UNCHANGED <<argv, env, caller, cfg, ctx_obj, assume_yes, prompt, provider,
                   timeout, context, user_payload, intent, confirmed, turns, processed>>

\* Mutant: dry-run skips the confirmation too.
skips_in_dry_run(c, ay) == ay \/ c.dry_run
\* Mutant: the confirmation is never asked for.
skips_always(c, ay) == TRUE

\* _execute_commands: `True if assume_yes else confirm_prompt(...)`: whether
\* the confirmation prompt is skipped.
skips_confirmation(c, ay) == ay

\* _execute_commands: the arguments of confirm_prompt.
prompt_args(c, ay) ==
    [question |-> "Run these commands?", default |-> c.confirm_default,
     assume_yes |-> ay]

\* Mutant: the prompt is issued before the preview.
gate_events_prompt_first(cmds, c, ay) ==
    (IF ay THEN <<>> ELSE <<[ev |-> "confirm_prompt", args |-> prompt_args(c, ay)]>>)
        \o <<[ev |-> "preview", commands |-> cmds]>>

\* _execute_commands up to the point where it waits for the user: the
\* preview, then the confirmation prompt unless it is skipped.
gate_events(cmds, c, ay) ==
    <<[ev |-> "preview", commands |-> cmds]>>
        \o (IF skips_confirmation(c, ay) THEN <<>>
            ELSE <<[ev |-> "confirm_prompt", args |-> prompt_args(c, ay)]>>)

\* Mutant: run is not told about dry-run.
run_args_no_dry_run(cmds, c, ay, conf) ==
    [commands |-> cmds, confirm |-> conf, dry_run |-> FALSE,
     show_preview |-> FALSE, assume_yes |-> ay]

\* Mutant: run is told the user confirmed, whatever the answer was.
run_args_confirm_true(cmds, c, ay, conf) ==
    [commands |-> cmds, confirm |-> TRUE, dry_run |-> c.dry_run,
     show_preview |-> FALSE, assume_yes |-> ay]

\* _execute_commands: the arguments of run.
run_args(cmds, c, ay, conf) ==
    [commands |-> cmds, confirm |-> conf, dry_run |-> c.dry_run,
     show_preview |-> FALSE, assume_yes |-> ay]

\* confirm.confirm_prompt, once the user has answered: an empty answer takes
\* the default, "y" is yes, anything else is no.
Answers == {"", "y", "n"}
confirm_prompt(answer, default) ==
    IF answer = "" THEN default ELSE answer = "y"

\* _execute_commands, from its start to the prompt (or to run, when the
\* confirmation is skipped).
execute_preview ==
    /\ pc = "gate"
    /\ trace' = trace \o gate_events(commands, cfg, assume_yes)
    /\ IF skips_confirmation(cfg, assume_yes)
       THEN pc' = "run" /\ confirmed' = TRUE
       ELSE pc' = "confirm" /\ UNCHANGED confirmed
    /\ UNCHANGED <<argv, env, caller, cfg, ctx_obj, assume_yes, prompt, provider,
                   timeout, context, user_payload, intent, commands, turns, processed,
                   exit_code, exc>>

\* Mutant: the answer is kept as the default of the next confirmation.
execute_confirm_remembers ==
    /\ pc = "confirm"
    /\ \E answer \in Answers :
          /\ confirmed' = confirm_prompt(answer, prompt_args(cfg, assume_yes).default)
          /\ trace' = Append(trace, [ev |-> "answer", answer |-> answer])
    /\ cfg' = [cfg EXCEPT !.confirm_default = confirmed']
    /\ pc' = "run"
    /\ UNCHANGED <<argv, env, caller, ctx_obj, assume_yes, prompt, provider,
                   timeout, context, user_payload, intent, commands, turns, processed,
                   exit_code, exc>>

\* The user answers the prompt.
execute_confirm ==
    /\ pc = "confirm"
    /\ \E answer \in Answers :
          /\ confirmed' = confirm_prompt(answer, prompt_args(cfg, assume_yes).default)
          /\ trace' = Append(trace, [ev |-> "answer", answer |-> answer])
    /\ pc' = "run"
    /\ UNCHANGED <<argv, env, caller, cfg, ctx_obj, assume_yes, prompt, provider,
                   timeout, context, user_payload, intent, commands, turns, processed,
                   exit_code, exc>>

\* executor.run: the exit code reserved for a declined confirmation.
DeclinedCode == 1
FailureCodes == {2}                    \* the nonzero exit code of a failing vector

\* executor.run: what the runner does with its arguments.  show_preview
\* previews again; dry-run returns 0 before anything runs; a declined
\* confirmation returns DeclinedCode; otherwise the vectors run in order up
\* to the first failure (k, 0 if none), which is returned as its exit code
\* or raised as ExecError.
ExecEvents(cmds, k, code) ==
    [i \in 1..(IF k = 0 THEN Len(cmds) ELSE k) |->
        [ev |-> "exec", vector |-> cmds[i], code |-> IF i = k THEN code ELSE 0]]

RunOutcomes(a) ==
    LET pre == IF a.show_preview THEN <<[ev |-> "preview", commands |-> a.commands]>>
               ELSE <<>>
    IN  IF a.dry_run THEN {[events |-> pre, code |-> 0, raised |-> NoExc]}
        ELSE IF ~a.confirm THEN {[events |-> pre, code |-> DeclinedCode, raised |-> NoExc]}
        ELSE {[events |-> pre \o ExecEvents(a.commands, 0, 0), code |-> 0,
               raised |-> NoExc]}
             \cup {[events |-> pre \o ExecEvents(a.commands, k, code), code |-> code,
                    raised |-> e] :
                     k \in 1..Len(a.commands), code \in FailureCodes,
                     e \in {NoExc, Exc("ExecError", "exec")}}

\* _execute_commands: `return run(...)`.
execute_run ==
    /\ pc = "run"
    /\ LET a == run_args(commands, cfg, assume_yes, confirmed)
       IN  \E o \in RunOutcomes(a) :
              LET tr == Append(trace, [ev |-> "run", args |-> a]) \o o.events
              IN  IF o.raised # NoExc
                  THEN Raise(o.raised, Append(tr, [ev |-> "run_raised", exc |-> o.raised]))
                  ELSE Return(o.code, Append(tr, [ev |-> "run_returned", code |-> o.code]))
    /\ UNCHANGED <<argv, env, caller, cfg, ctx_obj, assume_yes, prompt, provider,
                   timeout, context, user_payload, intent, commands, confirmed, turns, processed>>

\* ------------------------------------------------------ the specification
Next ==
    \/ cli_main
    \/ main_impl
    \/ nl
    \/ explain_cmd
    \/ read_line
    \/ read_interrupt
    \/ scan_and_make_client
    \/ parse_begin
    \/ first_attempt
    \/ repair_attempt
    \/ route_and_build
    \/ execute_preview
    \/ execute_confirm
    \/ execute_run

Spec == Init /\ [][Next]_vars

\* The same program started with the wider set of --timeout values.
InitWide == InitTimeout /\ InitRest
SpecTimeout == InitWide /\ [][Next]_vars

\* The same program started with the wider set of API key texts.
InitKeys == InitKey /\ InitRest
SpecKeys == InitKeys /\ [][Next]_vars

\* The same program started with the wider set of allowed-directory lists.
InitDirs == InitDir /\ InitRest
SpecDirs == InitDirs /\ [][Next]_vars

\* ------------------------------------------------------ reading the trace
\* The events of one kind, in order.
Ev(kind) == SelectSeq(trace, LAMBDA e : e.ev = kind)
\* The positions of the events of one kind.
At(kind) == {i \in DOMAIN trace : trace[i].ev = kind}
Calls == Ev("complete")
ParseOver == Ev("parse_raised") # <<>> \/ Ev("parse_returned") # <<>>
ParseRaised(t) == \E i \in At("parse_raised") : trace[i].exc.type = t
SchemaInvalid(call) ==
    /\ call.result.raised = NoExc
    /\ json_loads_ok(call.result.raw)
    /\ ~model_validate_ok(call.result.raw)
Malformed(call) == call.result.raised = NoExc /\ ~json_loads_ok(call.result.raw)
ShapeFailure(call) == SchemaInvalid(call) \/ Malformed(call)
ValidCall(call) ==
    /\ call.result.raised = NoExc
    /\ json_loads_ok(call.result.raw)
    /\ model_validate_ok(call.result.raw)

\* ------------------------------------------------------------ the claims

\* C1: one call of parse makes at most two calls of provider.complete; the
\* second (repair) call is made if and only if the first reply failed JSON
\* parsing or schema validation; a first reply that parses and validates is
\* returned after exactly one call.
C1_RepairBudget ==
    LET calls == Calls
    IN  /\ Len(calls) <= 2
        /\ Len(calls) = 2 => ShapeFailure(calls[1])
        /\ (ParseOver /\ Len(calls) >= 1 /\ ShapeFailure(calls[1])) => Len(calls) = 2
        /\ (Len(calls) >= 1 /\ ValidCall(calls[1])) =>
              /\ Len(calls) = 1
              /\ Ev("parse_returned") =
                    <<[ev |-> "parse_returned", intent |-> Intent(calls[1].result.raw)]>>
              /\ intent = Intent(calls[1].result.raw)

\* C1 witness: parse is over after a repair call that a schema-invalid first
\* reply caused and that itself failed in the provider.
C1_Witness ==
    /\ ParseOver
    /\ Len(Calls) = 2
    /\ SchemaInvalid(Calls[1])
    /\ Calls[2].result.raised # NoExc

\* C2: when the first reply is malformed JSON, parse makes exactly two calls,
\* and when the repair reply is valid JSON matching the schema parse returns
\* the Intent built from the repair reply.
C2_RepairedIntentReturned ==
    LET calls == Calls
    IN  (ParseOver /\ Len(calls) >= 1 /\ Malformed(calls[1])) =>
            /\ Len(calls) = 2
            /\ ValidCall(calls[2]) =>
                  /\ Ev("parse_raised") = <<>>
                  /\ Ev("parse_returned") =
                        <<[ev |-> "parse_returned",
                           intent |-> Intent(calls[2].result.raw)]>>
                  /\ intent = Intent(calls[2].result.raw)

\* C2 witness: parse has returned after a malformed first reply and a valid
\* repair reply.
C2_Witness ==
    /\ Ev("parse_returned") # <<>>
    /\ Len(Calls) = 2
    /\ Malformed(Calls[1])
    /\ ValidCall(Calls[2])

\* C3: when the reply fails schema validation on the first attempt, parse
\* makes exactly two calls, and when the repair reply fails schema validation
\* too parse raises ParseError (schema mismatch), never the raw
\* ValidationError.
C3_SchemaFailureTwiceIsParseError ==
    LET calls == Calls
    IN  (ParseOver /\ Len(calls) >= 1 /\ SchemaInvalid(calls[1])) =>
            /\ Len(calls) = 2
            /\ SchemaInvalid(calls[2]) =>
                  /\ Ev("parse_returned") = <<>>
                  /\ Ev("parse_raised") =
                        <<[ev |-> "parse_raised",
                           exc |-> Exc("ParseError", "schema_mismatch")]>>
                  /\ caller = "lib" => exc.type = "ParseError"

\* C3 witness: parse is over after two schema-invalid replies.
C3_Witness ==
    /\ ParseOver
    /\ Len(Calls) = 2
    /\ SchemaInvalid(Calls[1])
    /\ SchemaInvalid(Calls[2])

\* C4 (as claimed): for any provider, when the first call of complete raises
\* (a ParseError of the provider, or an OS-level error), parse raises
\* ParseError after exactly one call.
C4_FirstCallErrorIsParseError ==
    LET calls == Calls
    IN  (ParseOver /\ Len(calls) >= 1 /\ calls[1].result.raised # NoExc) =>
            /\ Len(calls) = 1
            /\ ParseRaised("ParseError")

\* C5: a prompt that is empty or whitespace-only after sanitization makes
\* parse raise ParseError at once, with no call of the provider.
C5_EmptyPromptRejected ==
    \A i \in At("parse") :
        strip(trace[i].sanitized_prompt) = <<>> =>
            /\ Calls = <<>>
            /\ Ev("parse_returned") = <<>>
            /\ i < Len(trace)
            /\ trace[i + 1] =
                  [ev |-> "parse_raised", exc |-> Exc("ParseError", "empty_prompt")]

\* C5 witness: parse has rejected a sanitized prompt that is not empty but
\* whitespace only.
C5_Witness ==
    \E i \in At("parse") :
        /\ trace[i].sanitized_prompt = <<" ">>
        /\ ParseRaised("ParseError")

C7_DryRunExecutesNothing ==
    cfg.dry_run =>
        /\ At("exec") = {}
        /\ At("run_raised") = {}
        /\ \A i \in At("run") :
              /\ i < Len(trace)
              /\ trace[i + 1] = [ev |-> "run_returned", code |-> 0]
        /\ (caller = "_main_impl" /\ At("run") # {}) => exit_code = 0

\* C7 witness: a dry run whose confirmation the user declined has returned.
C7_Witness ==
    /\ cfg.dry_run
    /\ \E i \in At("run") : ~trace[i].args.confirm
    /\ At("run_returned") # {}

\* C8: the preview of all argument vectors comes before any confirmation
\* prompt, the answer to the prompt comes before the runner is invoked, and
\* the runner receives the previewed list, in the same order.
C8_PreviewConfirmRunOrder ==
    /\ \A j \in At("preview") : trace[j].commands = commands
    /\ \A i \in At("confirm_prompt") : \E j \in At("preview") : j < i
    /\ \A i \in At("answer") : \E j \in At("confirm_prompt") : j < i
    /\ \A i \in At("run") :
          /\ \E j \in At("preview") : j < i /\ trace[j].commands = trace[i].args.commands
          /\ At("confirm_prompt") # {} => \E k \in At("answer") : k < i
          /\ \A k \in At("confirm_prompt") \cup At("answer") \cup At("preview") : k < i
    /\ \A i \in At("exec") : \E j \in At("run") : j < i

\* C8 witness: the runner was invoked, after an answer, with two different
\* vectors.
C8_Witness ==
    \E i \in At("run") :
        /\ trace[i].args.commands = <<"v2", "v1">>
        /\ At("answer") # {}
        /\ At("exec") # {}

\* C9: the confirmation prompt is skipped only with assume_yes; otherwise a
\* prompt with the default config.confirm_default is issued and its answer is
\* the confirmation value passed to the runner.
C9_PromptUnlessAssumeYes ==
    /\ At("preview") # {} => (At("confirm_prompt") = {} <=> assume_yes)
    /\ \A i \in At("confirm_prompt") :
          /\ trace[i].args.default = cfg.confirm_default
          /\ trace[i].args.question = "Run these commands?"
    /\ \A i \in At("run") :
          ~assume_yes =>
              \E k \in At("answer") :
                  /\ k < i
                  /\ trace[i].args.confirm =
                        confirm_prompt(trace[k].answer, cfg.confirm_default)

\* C9 witness: without assume_yes the user took the default answer and the
\* runner was invoked with it.
C9_Witness ==
    /\ ~assume_yes
    /\ \E k \in At("answer") : trace[k].answer = ""
    /\ \E i \in At("run") : trace[i].args.confirm = cfg.confirm_default

\* C10 (as claimed): with --yes on the command line every path that runs the
\* pipeline reaches the execution gate with assume_yes true.
C10_YesReachesTheGate == (argv.yes /\ At("preview") # {}) => assume_yes

\* C11: one prompt goes through parse, route, build, preview, confirm and
\* execute in this order, each stage at most once and each only after the
\* one before it is over; every model call lies between the start of parse
\* and its end; after a parse failure nothing is routed or built, and after
\* a parse or build failure nothing is previewed, confirmed or executed.
StageKinds ==
    <<"scan", "client", "parse", "route", "build", "preview", "confirm_prompt",
      "answer", "run">>
StageRank ==
    [scan |-> 1, client |-> 2, parse |-> 3, route |-> 4, build |-> 5, preview |-> 6,
     confirm_prompt |-> 7, answer |-> 8, run |-> 9]
Stages == SelectSeq(trace, LAMBDA e : e.ev \in DOMAIN StageRank)
Before(a, b) == \A i \in At(a), j \in At(b) : i < j
Needs(b, a) == \A j \in At(b) : \E i \in At(a) : i < j
AfterGate == {"preview", "confirm_prompt", "answer", "run", "exec"}
C11_StrictStageOrder ==
    /\ \A a \in DOMAIN StageKinds : StageRank[StageKinds[a]] = a
    /\ LET s == Stages
       IN  \A i \in 1..(Len(s) - 1) : StageRank[s[i].ev] < StageRank[s[i + 1].ev]
    /\ Needs("complete", "parse") /\ Before("complete", "parse_returned")
    /\ Before("complete", "parse_raised")
    /\ Needs("route", "parse_returned") /\ Needs("build", "route")
    /\ Needs("preview", "build") /\ Needs("confirm_prompt", "preview")
    /\ Needs("answer", "confirm_prompt") /\ Needs("run", "preview")
    /\ Needs("exec", "run")
    /\ At("parse_raised") # {} =>
          \A k \in AfterGate \cup {"route", "build"} : At(k) = {}
    /\ At("build_raised") # {} => \A k \in AfterGate : At(k) = {}

\* A build failure after a model call, in an interactive session.
C11_Witness ==
    /\ caller = "session"
    /\ At("build_raised") # {}
    /\ At("complete") # {}

\* C12: a line that is empty after trimming, or after trimming is exit, quit
\* or q in any letter case, starts no stage of the pipeline (no scan, client,
\* parse, model call, route, build, preview, prompt, run); on such an exit
\* word, the first line included, process_interactive_session returns 0.
ExitLines ==
    {<<"e", "x", "i", "t">>, <<"q", "u", "i", "t">>, <<"q">>, <<"Q">>,
     <<"Q", "u", "I", "t">>}
PipelineKinds ==
    {"scan", "client", "parse", "complete", "route", "build", "preview",
     "confirm_prompt", "answer", "run", "exec"}
C12_QuitRunsNoStage ==
    \A i \in At("read") :
       LET line == trace[i].user_input
       IN  /\ (line = <<>> \/ line \in ExitLines) =>
                 \A k \in PipelineKinds : At(k) = {}
           /\ line \in ExitLines =>
                 /\ pc = "done"
                 /\ \E j \in At("session_returned") : j > i /\ trace[j].code = 0

\* quit is the first line of the session.
C12_Witness ==
    /\ turns = 1
    /\ \E i \in At("read") : trace[i].user_input = <<"q", "u", "i", "t">>
    /\ At("session_returned") # {}

\* C13: when the command is over and process_natural_language_prompt (one-shot
\* callers) or process_interactive_session had returned 0 to it, the process
\* exit code is 0.
C13_ExitZeroOnSuccess ==
    (pc = "done" /\ caller \in {"_main_impl", "nl", "session"}) =>
       (((\E i \in At("run_returned") : trace[i].code = 0)
            \/ (\E i \in At("session_returned") : trace[i].code = 0))
        => exit_code = 0)

\* C14: a one-shot invocation (the top-level command or nl, with a prompt)
\* whose pipeline raised ParseError, BuildError, ExecError or ConfigError
\* exits with code 1; one whose pipeline returned a code exits with exactly
\* that code.
RaisedKinds == {"client_raised", "parse_raised", "build_raised", "run_raised"}
Taxonomy == {"ParseError", "BuildError", "ExecError", "ConfigError"}
PipelineRaised(t) == \E k \in RaisedKinds : \E i \in At(k) : trace[i].exc.type = t
C14_OneShotExitCode ==
    (pc = "done" /\ caller \in {"_main_impl", "nl"}) =>
       /\ (\E t \in Taxonomy : PipelineRaised(t)) => exit_code = 1
       /\ \A i \in At("run_returned") : exit_code = trace[i].code
       /\ At("scan") # {} =>
             (At("run_returned") # {} \/ \E t \in Taxonomy : PipelineRaised(t))

\* C15: in an interactive session, after ParseError, BuildError, ExecError or
\* ConfigError was raised for a line, the error is printed and the session is
\* back at reading a line; the session is over only after an exit command,
\* end-of-input or a keyboard interrupt.
C15_SessionContinuesOnError ==
    caller = "session" =>
       /\ \A t \in Taxonomy :
             PipelineRaised(t) =>
                /\ pc = "read"
                /\ \E i \in At("print_error") : trace[i].exc.type = t
       /\ pc = "done" =>
             \/ At("exiting") # {}
             \/ \E i \in At("read") : trace[i].user_input \in ExitLines

\* C16: when input() raised KeyboardInterrupt or EOFError, after any number
\* of lines read before, process_interactive_session has returned 0 and the
\* exception has gone no further: it is neither the process's uncaught
\* exception nor an error printed by the caller.
C16_InterruptEndsSessionGracefully ==
    \A i \in At("input_raised") :
       /\ trace[i].exc.type \in {"KeyboardInterrupt", "EOFError"}
       /\ \E j \in At("session_returned") : j > i /\ trace[j].code = 0
       /\ exc = NoExc
       /\ \A k \in At("print_error") :
             trace[k].exc.type \notin {"KeyboardInterrupt", "EOFError"}

\* End-of-input after the session has read as many lines as the bound
\* allows, one of them at least passed to the pipeline.
C16_Witness ==
    /\ turns = MaxTurns
    /\ processed >= 1
    /\ \E i \in At("input_raised") : trace[i].exc.type = "EOFError"
    /\ At("session_returned") # {}

\* C17: every call of provider.complete is given a timeout between 1 and 300
\* seconds, and no call is made when the --timeout option or AICLIP_TIMEOUT
\* is outside that range.
InRange(t) == TimeoutMin <= t /\ t <= TimeoutMax
C17_TimeoutWithinRange ==
    caller # "lib" =>
       /\ \A i \in At("complete") : InRange(trace[i].timeout)
       /\ ~(InRange(option_timeout(argv)) /\ InRange(env.AICLIP_TIMEOUT)) => At("complete") = {}

\* C18: no error raised by key validation or the model client, and no error
\* printed to the user, carries in its message a character taken from the
\* API key of the environment.
KeyChars == {env.OPENAI_API_KEY[i] : i \in DOMAIN env.OPENAI_API_KEY}
Leaks(e) == \E i \in DOMAIN e.shown : e.shown[i] \in KeyChars
C18_NoKeyInMessages ==
    \A k \in {"client_raised", "parse_raised", "print_error"} :
       \A i \in At(k) : ~Leaks(trace[i].exc)

\* C19: with a missing or malformed API key, the command-line program never
\* gets past loading the configuration: no configuration object is loaded,
\* no line of a session is read, no context is scanned, no prompt is parsed.
BadKey == env.OPENAI_API_KEY = NoKey \/ ~validate_api_key_format(env.OPENAI_API_KEY)
C19_BadKeyFatalAtStartup ==
    (BadKey /\ caller # "lib") =>
       /\ ~cfg.loaded
       /\ turns = 0 /\ At("read") = {}
       /\ At("scan") = {} /\ At("parse") = {}

\* C20: once an interactive session runs, no step changes the configuration;
\* a turn starts with none of the previous turn's context, client, payload,
\* intent, commands or confirmation; and in every turn the context is scanned
\* and the client is made before the prompt is parsed.
TurnStartsFresh ==
    (caller = "session" /\ pc = "scan") =>
       /\ provider = None /\ timeout = NoTimeout /\ context = None
       /\ user_payload = NoPayload /\ intent = NoIntent
       /\ commands = <<>> /\ ~confirmed
       /\ \A k \in PipelineKinds : At(k) = {}
TurnScansAndMakesClient ==
    caller = "session" => (Needs("parse", "scan") /\ Needs("parse", "client"))
C20_ConfigReadOnlyAcrossTurns ==
    /\ [][caller = "session" => cfg' = cfg]_vars
    /\ []TurnStartsFresh
    /\ []TurnScansAndMakesClient
    /\ [](caller = "session" => cfg = AppConfig(env))

\* The second processed line of a session has reached the gate.
C20_Witness ==
    /\ caller = "session"
    /\ processed = 2
    /\ At("preview") # {}

\* C21: when the repair attempt fails, parse raises ParseError with the
\* message of the repair attempt's own cause, whatever made the first attempt
\* fail: bad JSON, schema mismatch, and a failure of the provider or network
\* give three disjoint classes of message.
TransportMessages ==
    {"auth", "rate_limit", "timeout", "api_error", "no_response", "provider",
     "network_error"}
C21_RepairFailureNamesItsCause ==
    LET calls == Calls
    IN  (ParseOver /\ Len(calls) = 2 /\ ~ValidCall(calls[2])) =>
            /\ Ev("parse_returned") = <<>>
            /\ \A i \in At("parse_raised") :
                  /\ trace[i].exc.type = "ParseError"
                  /\ Malformed(calls[2]) <=> trace[i].exc.msg = "invalid_json"
                  /\ SchemaInvalid(calls[2]) <=> trace[i].exc.msg = "schema_mismatch"
                  /\ calls[2].result.raised # NoExc <=>
                        trace[i].exc.msg \in TransportMessages
            /\ At("parse_raised") # {}

\* The first reply failed the schema, the repair reply is bad JSON.
C21_Witness ==
    /\ ParseOver
    /\ Len(Calls) = 2
    /\ SchemaInvalid(Calls[1])
    /\ Malformed(Calls[2])

\* C22: when the user answers no to the confirmation prompt and dry-run is
\* off, run is called with confirm false, no argument vector is executed, and
\* the gate returns a nonzero exit code (it does not raise).
C22_DeclinedExecutesNothing ==
    \A i \in At("answer") :
       (trace[i].answer = "n" /\ ~cfg.dry_run) =>
          /\ At("exec") = {}
          /\ At("run_raised") = {}
          /\ \A j \in At("run") :
                /\ ~trace[j].args.confirm
                /\ \E k \in At("run_returned") : k > j /\ trace[k].code # 0

\* The user has declined and the gate has returned.
C22_Witness ==
    /\ ~cfg.dry_run
    /\ \E i \in At("answer") : trace[i].answer = "n"
    /\ \E k \in At("run_returned") : trace[k].code = DeclinedCode

\* C23: explain-cmd exits with code 2 when it is given no command line and
\* with code 1 when the first word is not ffmpeg; it never loads the
\* configuration, makes a client, calls the model, or builds, previews or
\* runs a command.
C23_ExplainIsDescriptive ==
    /\ argv.command = "explain-cmd" =>
          /\ ~cfg.loaded /\ provider = None /\ intent = NoIntent /\ commands = <<>>
          /\ \A k \in PipelineKinds : At(k) = {}
    /\ \A i \in At("explain") :
          LET args == trace[i].args
              words == split(join(args))
          IN  /\ argv.command = "explain-cmd"
              /\ (args = <<>> \/ args = <<<<>>>>) => exit_code = 2
              /\ (words # <<>> /\ words[1] # "ffmpeg") => exit_code = 1
              /\ trace[i].summary => (exit_code = 0 /\ words[1] = "ffmpeg")

\* A command line that starts with another program's name was rejected.
C23_Witness ==
    /\ pc = "done"
    /\ exit_code = 1
    /\ \E i \in At("explain") : trace[i].args = <<<<"ls", " ", "-l">>>>

\* C24: the second call of provider.complete has the system instruction and
\* the timeout of the first, and its user message is the corrective
\* instruction followed by the very payload (prompt and context) the first
\* call sent on its own.
C24_RepairResendsPayload ==
    LET calls == Calls
    IN  Len(calls) = 2 =>
            /\ calls[2].system = calls[1].system
            /\ calls[2].timeout = calls[1].timeout
            /\ ~calls[1].user.repair_prompt
            /\ calls[2].user.repair_prompt
            /\ calls[2].user.payload = calls[1].user.payload
            /\ calls[1].user.payload.context \in Contexts

\* A repair call made with a timeout the caller chose.
C24_Witness ==
    /\ Len(Calls) = 2
    /\ Calls[2].timeout = 30
    /\ Calls[2].user.payload.prompt # <<>>

\* C25: when the second call of provider.complete raises (the provider's
\* ParseError or an OS-level error), parse is over at once with ParseError:
\* two calls have been made and there is no third.
C25_RepairTransportErrorNotRetried ==
    LET calls == Calls
    IN  (Len(calls) >= 2 /\ calls[2].result.raised.type \in {"ParseError", "OSError"}) =>
            /\ Len(calls) = 2
            /\ pc \notin {"attempt1", "attempt2"}
            /\ Ev("parse_returned") = <<>>
            /\ Len(Ev("parse_raised")) = 1
            /\ ParseRaised("ParseError")

\* The injected provider raised an OS-level error on the repair call.
C25_Witness ==
    /\ Len(Calls) = 2
    /\ Calls[2].result.raised.type = "OSError"
    /\ ParseOver

\* C26: on the command-line paths, when --timeout is not passed every model
\* call is given the AICLIP_TIMEOUT of the environment; when --model is not
\* passed the client is made for AICLIP_MODEL; when neither --dry-run nor
\* --no-dry-run is passed run is given AICLIP_DRY_RUN.
C26_EnvUnlessOptionGiven ==
    caller \in {"_main_impl", "nl", "session"} =>
       /\ argv.timeout = NoTimeout =>
             \A i \in At("complete") : trace[i].timeout = env.AICLIP_TIMEOUT
       /\ argv.model = None =>
             \A i \in At("client") : trace[i].model = env.AICLIP_MODEL
       /\ argv.dry_run = None =>
             \A i \in At("run") : trace[i].args.dry_run = env.AICLIP_DRY_RUN

\* C27: a key is accepted (the client is made) exactly when it is "sk-"
\* followed by at least 32 characters each of which is an ASCII letter or
\* digit; a key with any other character after the prefix, a trailing
\* newline included, is rejected with ConfigError.
WellFormedKey(k) ==
    /\ Len(k) >= Len(KeyPrefix) + MinBodyLen
    /\ SubSeq(k, 1, Len(KeyPrefix)) = KeyPrefix
    /\ \A i \in (Len(KeyPrefix) + 1)..Len(k) : k[i] \in Alnum
C27_KeyFormatExact ==
    /\ At("client") # {} => WellFormedKey(env.OPENAI_API_KEY)
    /\ At("client_raised") # {} => ~WellFormedKey(env.OPENAI_API_KEY)

\* C28: the key is validated before every use: in a turn of the command-line
\* program whose configured key is missing or fails the format test, making
\* the client raises ConfigError right after the context scan, no provider is
\* constructed and complete() is never called; a client exists only with a
\* key that passed validation.
C28_KeyValidatedBeforeUse ==
    (caller # "lib" /\ (cfg.openai_api_key = NoKey
                         \/ ~validate_api_key_format(cfg.openai_api_key))) =>
       /\ provider = None
       /\ At("client") = {} /\ At("complete") = {}
       /\ \A i \in At("scan") : i < Len(trace) /\ trace[i + 1].ev = "client_raised"
                                               /\ trace[i + 1].exc.type = "ConfigError"
C28_Witness ==
    /\ caller = "session" /\ turns = MaxTurns
    /\ cfg.openai_api_key = MalformedKey
    /\ At("client_raised") # {} /\ provider = None

\* C29: the reply {"error": "unsupported_action", ...} is a schema failure:
\* as a first reply it causes the one repair call, and when the repair reply
\* is the same object parse raises ParseError (schema mismatch) after exactly
\* two calls; no Intent is ever built from such a reply.
IsUnsupported(call) == call.result.raised = NoExc /\ call.result.raw = UnsupportedReply
C29_UnsupportedIsSchemaFailure ==
    LET calls == Calls
    IN  /\ (ParseOver /\ Len(calls) >= 1 /\ IsUnsupported(calls[1])) =>
              /\ Len(calls) = 2
              /\ calls[2].user.repair_prompt
              /\ IsUnsupported(calls[2]) =>
                    /\ At("parse_returned") = {}
                    /\ \A i \in At("parse_raised") :
                          trace[i].exc = Exc("ParseError", "schema_mismatch")
        /\ \A i \in At("parse_returned") :
              /\ trace[i].intent # Intent(UnsupportedReply)
              /\ \E j \in 1..Len(calls) : /\ ~IsUnsupported(calls[j])
                                          /\ trace[i].intent = Intent(calls[j].result.raw)
C29_Witness ==
    /\ ParseRaised("ParseError")
    /\ Len(Calls) = 2
    /\ IsUnsupported(Calls[1])
    /\ IsUnsupported(Calls[2])

\* C30: in a loaded configuration the list of allowed directories is never
\* empty and every entry is the absolute, normalised path of an existing
\* directory; the entries are those of AICLIP_ALLOWED_DIRS that name an
\* existing directory, in order, the others being dropped, and when none is
\* left the list is exactly the working directory.
C30_AllowedDirectories ==
    cfg.loaded =>
       LET a == cfg.allowed_directories
           given == SelectSeq(env.AICLIP_ALLOWED_DIRS, LAMBDA d : d # Blank)
           good == SelectSeq(given, LAMBDA d : abspath(d).parts \in DirParts)
       IN  /\ a # <<>>
           /\ \A i \in DOMAIN a : /\ a[i].abs
                                  /\ a[i].parts \in DirParts
                                  /\ a[i].parts = normpath(a[i].parts, <<>>)
           /\ good # <<>> => a = [i \in DOMAIN good |-> abspath(good[i])]
           /\ good = <<>> => a = <<Cwd>>
\* C30 witness: a configuration loaded from a list naming a file and a path
\* that does not exist, both dropped.
C30_Witness ==
    /\ cfg.loaded
    /\ env.AICLIP_ALLOWED_DIRS = <<Path(FALSE, <<"f.txt">>), Path(TRUE, <<"missing">>)>>
    /\ cfg.allowed_directories = <<Cwd>>

\* C31: process_interactive_session returns 0 whenever it returns.  A line
\* whose pipeline returned a nonzero code or raised ParseError, BuildError or
\* ExecError leaves the session reading the next line, with nothing returned
\* and the process not exited; and when the step after such a line ends the
\* session, the session returns 0 all the same.
FailedLine ==
    /\ caller = "session"
    /\ \/ \E i \in At("print_code") : trace[i].code # 0
       \/ \E i \in At("print_error") : trace[i].exc.type \in HandledBySession
====
